---- MODULE Spec2Model ----
(***************************************************************************)
(* The ISAM store of src/prueba.py: a data file of fixed-capacity pages     *)
(* chained through next_page, a sparse index file of (min key, page) pairs, *)
(* and the operations ISAM.insert, ISAM.search, ISAM.scanAll and            *)
(* IndexFile.build / IndexFile.find_page_for_key over them.                 *)
(*                                                                          *)
(* A record is modelled by its id: insert, search, split and build read no  *)
(* other field, and Page.pack / Page.unpack carry the id of every record    *)
(* through a write and a read of a page unchanged.                          *)
(* Page numbers are 0-based as in the source; page number p of the data     *)
(* file is pages[p + 1].                                                    *)
(***************************************************************************)
EXTENDS Integers, Sequences, FiniteSets, TLC

VARIABLES
    BLOCK_FACTOR,   \* capacity of a page (module constant of prueba.py)
    dataExists,     \* os.path.exists(data file)
    pages,          \* the data file: sequence of [records, next_page]
    indexExists,    \* os.path.exists(index file)
    index,          \* the index file: sequence of <<key, page number>>
    ret,            \* what the last call returned to its caller
    log             \* history: the ids passed to ISAM.insert, in call order

vars == <<BLOCK_FACTOR, dataExists, pages, indexExists, index, ret, log>>

----------------------------------------------------------------------------
(* Bounds and program constants *)

\* BLOCK_FACTOR = 3 at the top of prueba.py
DefaultBlockFactor == 3

\* the ids the driver at the bottom of prueba.py inserts, in its order
Demo == <<10, 2, 7, 1, 12, 5, 6>>

\* ids offered to insert
Keys == {Demo[i] : i \in 1..Len(Demo)}

\* at most this many calls of insert in a behaviour
MaxInserts == 7

\* at most this many of them repeat an id inserted before
MaxRepeats == 1

\* block factors tried by the specification that varies the block factor
MaxBlockFactor == 4

\* calls of insert in the specifications that vary the block factor or call
\* IndexFile.build
MaxFewInserts == 6

\* entries of an index file drawn as input of find_page_for_key
MaxEntries == 3

----------------------------------------------------------------------------
(* Page *)

\* Page.__init__
Page(records, next_page) == [records |-> records, next_page |-> next_page]

\* the sentinel for "no next page"
NoPage == -1

----------------------------------------------------------------------------
(* DataFile *)

\* DataFile._num_pages: file size // SIZE_OF_PAGE
_num_pages(f) == Len(f)

\* DataFile._read_page: page page_no of the file
_read_page(f, page_no) == f[page_no + 1]

\* DataFile._write_page: overwrite page page_no in place
_write_page(f, page_no, page) == [f EXCEPT ![page_no + 1] = page]

\* DataFile._append_page: write at the end; the new page's number is the
\* number of pages before the write
_append_page(f, page) == Append(f, page)

----------------------------------------------------------------------------
(* IndexFile *)

\* IndexFile._load_all: the entries of the index file, none when it is missing
_load_all == IF indexExists THEN index ELSE <<>>

\* the loop of find_page_for_key: the page of the last entry with k <= key
\* before the first entry with k > key; best stays None (NoBest) until an
\* entry matched
RECURSIVE BestEntry(_, _, _, _)
BestEntry(entries, key, i, best) ==
    IF i > Len(entries) THEN best
    ELSE IF entries[i][1] <= key
         THEN BestEntry(entries, key, i + 1, entries[i][2])
         ELSE best

\* best = None
NoBest == -2

\* IndexFile.find_page_for_key over given entries
PageForKey_FallbackZero(entries, key) ==
    IF Len(entries) = 0 THEN 0
    ELSE LET best == BestEntry(entries, key, 1, NoBest)
         IN  IF best # NoBest THEN best ELSE 0

PageForKey(entries, key) ==
    IF Len(entries) = 0 THEN 0
    ELSE LET best == BestEntry(entries, key, 1, NoBest)
         IN  IF best # NoBest THEN best ELSE entries[1][2]

\* IndexFile.find_page_for_key
find_page_for_key(key) == PageForKey(_load_all, key)

\* what build hands to Page.unpack for page pno (lines 114-115): the bytes of
\* page 0 for pno = 0; for pno >= 1 the value of
\* "df.seek(pno * SIZE_OF_PAGE, 0) or df.read(SIZE_OF_PAGE)", and seek returns
\* the new offset, a non-zero int, so "or" yields that int and Page.unpack
\* raises TypeError on it
ReadForBuild_SeekThenRead(f, pno) == [ok |-> TRUE, page |-> _read_page(f, pno)]

ReadForBuild(f, pno) ==
    IF pno = 0 THEN [ok |-> TRUE, page |-> _read_page(f, 0)]
    ELSE [ok |-> FALSE, page |-> Page(<<>>, NoPage)]

\* the loop of build from page pno on: the entries (first key, page number)
\* written for the pages that hold a record, until a read raises
RECURSIVE BuildFrom(_, _)
BuildFrom(f, pno) ==
    IF pno >= _num_pages(f) THEN [entries |-> <<>>, raised |-> FALSE]
    ELSE LET r == ReadForBuild(f, pno)
         IN  IF ~r.ok THEN [entries |-> <<>>, raised |-> TRUE]
             ELSE LET rest == BuildFrom(f, pno + 1)
                      here == IF Len(r.page.records) > 0
                              THEN <<(<<r.page.records[1], pno>>)>>
                              ELSE <<>>
                  IN  [entries |-> here \o rest.entries, raised |-> rest.raised]

\* IndexFile.build on an existing data file: the index file is opened "wb"
\* (truncated) and holds the entries written when build returns or raises
build(f) == BuildFrom(f, 0)

\* what a call hands back to its caller: Python's None, an int, or an
\* exception that leaves the call
RetNone == [kind |-> "None", value |-> 0]
RetInt(v) == [kind |-> "int", value |-> v]
RetRaise(e) == [kind |-> e, value |-> 0]

\* what a call that ran build returns to its caller
BuildOutcome(b) == IF b.raised THEN RetRaise("TypeError") ELSE RetNone

----------------------------------------------------------------------------
(* ISAM.insert *)

\* bisect.bisect_left(a, x, lo, hi)
RECURSIVE bisect(_, _, _, _)
bisect(a, x, lo, hi) ==
    IF lo < hi
    THEN LET m == (lo + hi) \div 2
         IN  IF a[m + 1] < x THEN bisect(a, x, m + 1, hi) ELSE bisect(a, x, lo, m)
    ELSE lo

bisect_left_AtEnd(a, x) == Len(a)

bisect_left(a, x) == bisect(a, x, 0, Len(a))

\* list.insert(pos, rec)
ListInsert(s, pos, rec) == SubSeq(s, 1, pos) \o <<rec>> \o SubSeq(s, pos + 1, Len(s))

\* ISAM._insert_into_page_sorted
_insert_into_page_sorted(page, rec) ==
    [page EXCEPT !.records = ListInsert(page.records, bisect_left(page.records, rec), rec)]

\* insert's test "hay espacio": len(cur_pg.records) <= BLOCK_FACTOR
HasRoom_OffByOne(n) == n <= BLOCK_FACTOR + 1

HasRoom(n) == n <= BLOCK_FACTOR

\* the split point of insert: mid = (len(cur_pg.records) + 1) // 2
SplitMid_Late(n) == n \div 2 + 1

SplitMid(n) == (n + 1) \div 2

\* low = cur_pg.records[:mid]
SplitLow(records, mid) == SubSeq(records, 1, mid)

\* high = cur_pg.records[mid:]
SplitHigh_FromMidRecord(records, mid) == SubSeq(records, mid, Len(records))

SplitHigh(records, mid) == SubSeq(records, mid + 1, Len(records))

\* new_pg = Page(high, cur_pg.next_page): the new page takes over the rest of
\* the chain
NewPage_ChainCut(high, cur_pg) == Page(high, NoPage)

NewPage(high, cur_pg) == Page(high, cur_pg.next_page)

\* cur_pg.records = low; cur_pg.next_page = new_no
Relink_Forgotten(cur_pg, low, new_no) == Page(low, cur_pg.next_page)

Relink(cur_pg, low, new_no) == Page(low, new_no)

\* the data file after the loop body of insert ran on page cur_no of a
\* non-empty file: sorted insert, then write back, or split and write both
InsertAt(f, cur_no, rec) ==
    LET cur_pg == _insert_into_page_sorted(_read_page(f, cur_no), rec)
    IN  IF HasRoom(Len(cur_pg.records))
        THEN _write_page(f, cur_no, cur_pg)
        ELSE LET mid    == SplitMid(Len(cur_pg.records))
                 low    == SplitLow(cur_pg.records, mid)
                 high   == SplitHigh(cur_pg.records, mid)
                 new_pg == NewPage(high, cur_pg)
                 new_no == _num_pages(f)
             IN  _write_page(_append_page(f, new_pg), cur_no,
                             Relink(cur_pg, low, new_no))

\* step 4 of insert: the index is rebuilt only when its file is missing or empty
NeedsBuild_Always == TRUE

NeedsBuild == ~indexExists \/ Len(index) = 0

\* ISAM.insert(rec)
insert(rec) ==
    LET target == find_page_for_key(rec)
    IN  /\ IF _num_pages(pages) = 0
           THEN /\ pages' = _append_page(pages, Page(<<rec>>, NoPage))
                /\ index' = <<(<<rec, 0>>)>>
                /\ indexExists' = TRUE
                /\ ret' = RetNone
           ELSE /\ pages' = InsertAt(pages, target, rec)
                /\ IF NeedsBuild
                   THEN /\ index' = build(pages').entries
                        /\ indexExists' = TRUE
                        /\ ret' = BuildOutcome(build(pages'))
                   ELSE /\ UNCHANGED <<index, indexExists>>
                        /\ ret' = RetNone
        /\ log' = Append(log, rec)
        /\ UNCHANGED <<BLOCK_FACTOR, dataExists>>

\* the ids of log, and how many calls repeated an earlier id
Range(s) == {s[i] : i \in 1..Len(s)}
Repeats(s) == Len(s) - Cardinality(Range(s))

\* a call of insert by the caller
Insert ==
    \E rec \in Keys :
        /\ Len(log) < MaxInserts
        /\ (rec \in Range(log) => Repeats(log) < MaxRepeats)
        /\ insert(rec)

\* the ids a caller of few inserts draws from: insert, search and build only
\* compare ids, so six ids give every order of MaxFewInserts distinct ids
FewKeys == Keys \ {Demo[1]}

\* a call of insert by a caller that makes at most MaxFewInserts calls
InsertFew ==
    \E rec \in FewKeys :
        /\ Len(log) < MaxFewInserts
        /\ (rec \in Range(log) => Repeats(log) < MaxRepeats)
        /\ insert(rec)

----------------------------------------------------------------------------
(* IndexFile.build called by the caller, ISAM.search, ISAM.scanAll *)

\* a call of IndexFile.build(data file) by the caller: it returns at once
\* when the data file is missing; the data file exists since ISAM.__init__,
\* so the index file is rewritten from its pages
Build ==
    /\ IF ~dataExists
       THEN UNCHANGED <<index, indexExists>> /\ ret' = RetNone
       ELSE /\ index' = build(pages).entries
            /\ indexExists' = TRUE
            /\ ret' = BuildOutcome(build(pages))
    /\ UNCHANGED <<BLOCK_FACTOR, dataExists, pages, log>>

\* results of search
None == [kind |-> "None", id |-> 0]
Found(r) == [kind |-> "Record", id |-> r]
NoReturn == [kind |-> "NoReturn", id |-> 0]
Raised == [kind |-> "Raised", id |-> 0]

\* the loop of search from page pno: the first record with r.id = key along
\* next_page, None at the sentinel. _read_page of a page past the end of the
\* file reads no bytes and Page.unpack raises struct.error on them (Raised). A walk
\* longer than the file has pages is a walk around a cycle, which the loop
\* never leaves.
RECURSIVE SearchFrom(_, _, _, _)
SearchFrom(f, pno, key, steps) ==
    IF pno = NoPage THEN None
    ELSE IF pno >= _num_pages(f) THEN Raised
    ELSE IF steps > _num_pages(f) THEN NoReturn
    ELSE LET pg == _read_page(f, pno)
         IN  IF \E i \in 1..Len(pg.records) : pg.records[i] = key
             THEN Found(key)
             ELSE SearchFrom(f, pg.next_page, key, steps + 1)

\* ISAM.search(key)
search(key) == SearchFrom(pages, find_page_for_key(key), key, 0)

\* ISAM.scanAll: the records it prints, page by page in page-number order
RECURSIVE ScanFrom(_, _)
ScanFrom(f, i) ==
    IF i >= _num_pages(f) THEN <<>>
    ELSE _read_page(f, i).records \o ScanFrom(f, i + 1)

scanAll == ScanFrom(pages, 0)

----------------------------------------------------------------------------
(* Specifications *)

\* ISAM.__init__ on fresh files: an empty data file, no index file
InitFiles ==
    /\ dataExists = TRUE
    /\ pages = <<>>
    /\ indexExists = FALSE
    /\ index = <<>>
    /\ ret = RetNone
    /\ log = <<>>

Init == BLOCK_FACTOR = DefaultBlockFactor /\ InitFiles

\* the store under calls of insert alone
Next == Insert

Spec == Init /\ [][Next]_vars

\* the store under calls of insert and of IndexFile.build
NextBuild == InsertFew \/ Build

SpecBuild == Init /\ [][NextBuild]_vars

\* a call of find_page_for_key by the caller
FindPage ==
    /\ \E key \in Keys : ret' = RetInt(find_page_for_key(key))
    /\ UNCHANGED <<BLOCK_FACTOR, dataExists, pages, indexExists, index, log>>

\* the ids of S in increasing order
RECURSIVE Ascending(_)
Ascending(S) ==
    IF S = {} THEN <<>>
    ELSE LET m == CHOOSE x \in S : \A y \in S : x <= y
         IN  <<m>> \o Ascending(S \ {m})

\* the index files the format allows with at most MaxEntries entries: minKey
\* strictly increasing by position, no page number twice
IndexContents ==
    UNION {{[i \in 1..Cardinality(K) |-> <<Ascending(K)[i], pg[i]>>] :
               pg \in {f \in [1..Cardinality(K) -> 0..MaxEntries] :
                          \A i \in DOMAIN f : \A j \in DOMAIN f : i < j => f[i] # f[j]}} :
           K \in {S \in SUBSET Keys : Cardinality(S) <= MaxEntries}}

\* find_page_for_key as a function of the index file: any index file the
\* format allows, or none
InitIndex ==
    /\ BLOCK_FACTOR = DefaultBlockFactor
    /\ dataExists = TRUE
    /\ pages = <<>>
    /\ ret = RetNone
    /\ log = <<>>
    /\ index \in IndexContents
    /\ indexExists \in BOOLEAN
    /\ (~indexExists => index = <<>>)

NextIndex == FindPage

SpecIndex == InitIndex /\ [][NextIndex]_vars

\* the store under calls of insert, for every block factor up to MaxBlockFactor
InitFactor == BLOCK_FACTOR \in 1..MaxBlockFactor /\ InitFiles

NextFactor == InsertFew

SpecFactor == InitFactor /\ [][NextFactor]_vars

----------------------------------------------------------------------------
(* What the claims speak of *)

\* the page numbers of the data file
PageNumbers == 0..(_num_pages(pages) - 1)

\* the slots <<page number, position>> of the data file that hold id k
SlotsOf(k) ==
    UNION {{<<p, i>> : i \in {j \in 1..Len(_read_page(pages, p).records) :
                                  _read_page(pages, p).records[j] = k}} :
           p \in PageNumbers}

\* the ids stored in the data file
StoredIds == {k \in Keys : SlotsOf(k) # {}}

\* no call of insert repeated an id
DistinctInserts == Repeats(log) = 0

\* the ids of s are strictly increasing by position
StrictlyIncreasing(s) == \A i \in 1..Len(s) : \A j \in 1..Len(s) : i < j => s[i] < s[j]

\* the pages from page pno along next_page up to the sentinel, at most
\* steps of them
RECURSIVE Chain(_, _, _)
Chain(f, pno, steps) ==
    IF pno = NoPage \/ steps = 0 THEN <<>>
    ELSE <<pno>> \o Chain(f, _read_page(f, pno).next_page, steps - 1)

\* the records of the pages named by chain, concatenated in its order
RECURSIVE ChainRecords(_, _)
ChainRecords(f, chain) ==
    IF chain = <<>> THEN <<>>
    ELSE _read_page(f, Head(chain)).records \o ChainRecords(f, Tail(chain))

----------------------------------------------------------------------------
(* C1: after insert calls with pairwise distinct ids into an empty store,   *)
(* search(k) returns a record with id k exactly when k was inserted, and    *)
(* None for every id never inserted.                                        *)
C1_SearchFindsExactlyInserted ==
    DistinctInserts =>
        \A k \in Keys :
            IF k \in Range(log) THEN search(k) = Found(k) ELSE search(k) = None

\* a record found in an overflow page two links away from page 0, and an id
\* never inserted that is not found
C1_Witness ==
    /\ DistinctInserts
    /\ _num_pages(pages) >= 3
    /\ \E k \in Range(log) :
          /\ search(k) = Found(k)
          /\ SlotsOf(k) \subseteq {Chain(pages, 0, 3)[3]} \X (1..BLOCK_FACTOR)
    /\ \E k \in Keys \ Range(log) : search(k) = None

\* search is right about every id once the first insert has created page 0
SearchRightOnceNonEmpty ==
    (DistinctInserts /\ Len(log) >= 1) =>
        \A k \in Keys :
            IF k \in Range(log) THEN search(k) = Found(k) ELSE search(k) = None

(* C2: insert of an id already stored changes no page and no index entry    *)
(* and reports DuplicateKey.  (Stated of the step a call of insert takes.)  *)
C2_DuplicateInsertIsNoOp ==
    [][\A k \in Keys :
          (k \in StoredIds /\ log' = Append(log, k)) =>
              /\ pages' = pages
              /\ index' = index
              /\ indexExists' = indexExists
              /\ ret'.kind = "DuplicateKey"]_vars

(* C3: in every state reached by insert calls, the records of every page    *)
(* are strictly increasing by id in slot order.                             *)
C3_PagesStrictlyIncreasing ==
    \A p \in PageNumbers : StrictlyIncreasing(_read_page(pages, p).records)

(* C4: BLOCK_FACTOR+1 inserts with strictly increasing ids into an empty    *)
(* store give exactly two pages, page 0 linked to page 1, each with at most *)
(* BLOCK_FACTOR records, together the BLOCK_FACTOR+1 records; the index     *)
(* entry of page 0 keeps the minKey it had before the split.                *)
C4_SplitOfIncreasingInserts ==
    (StrictlyIncreasing(log) /\ Len(log) >= 1 /\ Len(log) <= BLOCK_FACTOR + 1) =>
        /\ index = <<(<<log[1], 0>>)>>
        /\ Len(log) <= BLOCK_FACTOR => _num_pages(pages) = 1
        /\ Len(log) = BLOCK_FACTOR + 1 =>
              /\ _num_pages(pages) = 2
              /\ _read_page(pages, 0).next_page = 1
              /\ _read_page(pages, 1).next_page = NoPage
              /\ Len(_read_page(pages, 0).records) <= BLOCK_FACTOR
              /\ Len(_read_page(pages, 1).records) <= BLOCK_FACTOR
              /\ _read_page(pages, 0).records \o _read_page(pages, 1).records = log

\* the split of the source's block factor has happened on increasing inserts
C4_Witness ==
    /\ BLOCK_FACTOR = DefaultBlockFactor
    /\ StrictlyIncreasing(log)
    /\ Len(log) = BLOCK_FACTOR + 1
    /\ _num_pages(pages) = 2

C6_ScanCompleteness ==
    DistinctInserts =>
        /\ Len(scanAll) = Len(log)
        /\ \A k \in Range(log) : Cardinality(SlotsOf(k)) = 1
        /\ Range(scanAll) = Range(log)

\* two splits have happened and the scan still visits every inserted record
C6_Witness ==
    /\ DistinctInserts
    /\ _num_pages(pages) >= 3
    /\ Len(scanAll) >= 2 * BLOCK_FACTOR
    /\ Len(scanAll) = Len(log)

(* C7: an insert into a non-empty store leaves the index file as it is,     *)
(* also when it splits a page; an insert writes the index only when it      *)
(* creates page 0 of an empty store.                                        *)
C7_InsertLeavesIndex ==
    [][\A k \in Keys :
          log' = Append(log, k) =>
              /\ _num_pages(pages) > 0 => (index' = index /\ indexExists' = indexExists)
              /\ (index' # index \/ indexExists' # indexExists) =>
                    /\ _num_pages(pages) = 0
                    /\ _num_pages(pages') = 1
                    /\ index' = <<(<<k, 0>>)>>]_vars

\* after a split the index still holds the entry of the first insert, though
\* page 0 now starts with a smaller id
C7_Witness ==
    /\ _num_pages(pages) >= 2
    /\ index = <<(<<log[1], 0>>)>>
    /\ _read_page(pages, 0).records[1] < log[1]

(* C8: in every state reached by insert calls every page of the data file   *)
(* holds between 0 and BLOCK_FACTOR records, for every BLOCK_FACTOR >= 1.   *)
C8_PageWithinCapacity ==
    \A p \in PageNumbers :
        /\ Len(_read_page(pages, p).records) >= 0
        /\ Len(_read_page(pages, p).records) <= BLOCK_FACTOR

\* pages split at the smallest block factor, and a full page at the largest
C8_Witness ==
    \/ BLOCK_FACTOR = 1 /\ _num_pages(pages) >= 3
    \/ /\ BLOCK_FACTOR = MaxBlockFactor
       /\ _num_pages(pages) = 2
       /\ Len(_read_page(pages, 1).records) >= 2

\* the page the claim names: of the entry with the largest minKey <= key, of
\* the first entry when no minKey is <= key, page 0 without entries
OwningPage(entries, key) ==
    LET below == {i \in 1..Len(entries) : entries[i][1] <= key}
    IN  IF Len(entries) = 0 THEN 0
        ELSE IF below = {} THEN entries[1][2]
        ELSE entries[CHOOSE i \in below :
                        \A j \in below : entries[j][1] <= entries[i][1]][2]

(* C9: for every index content and every key, find_page_for_key returns the *)
(* page number of the entry with the largest minKey <= key, the first       *)
(* entry's page number when the key is below every minKey, and page 0 when  *)
(* the index has no entries.                                                *)
C9_FindPageForKey ==
    /\ \A key \in Keys : find_page_for_key(key) = OwningPage(_load_all, key)
    /\ ret.kind = "int" =>
          \E key \in Keys : ret.value = OwningPage(_load_all, key)

\* find_page_for_key returned the page of an entry that is neither the first
\* nor the last, and a key below every minKey exists
C9_Witness ==
    /\ indexExists
    /\ Len(index) = MaxEntries
    /\ ret = RetInt(index[2][2])
    /\ index[2][2] # 1
    /\ \E key \in Keys : key < index[1][1]

(* C10: in every state reached by insert calls and calls of IndexFile.build *)
(* the index holds no two entries with the same pageNumber and its minKey   *)
(* values are strictly increasing in sequence order.                        *)
C10_IndexInvariant ==
    \A i \in 1..Len(_load_all) : \A j \in 1..Len(_load_all) :
        i < j => /\ _load_all[i][2] # _load_all[j][2]
                 /\ _load_all[i][1] < _load_all[j][1]

\* build has run on a data file of three pages
C10_Witness ==
    /\ ret = RetRaise("TypeError")
    /\ _num_pages(pages) >= 3
    /\ index = <<(<<_read_page(pages, 0).records[1], 0>>)>>
    /\ index # <<(<<log[1], 0>>)>>

\* an overflow page: a page that is the next_page of another page
OverflowPages == {p \in PageNumbers : \E q \in PageNumbers : _read_page(pages, q).next_page = p}

(* C11: the index never holds an entry whose pageNumber is an overflow page, *)
(* neither after a split by insert nor after a rebuild by IndexFile.build.   *)
C11_NoIndexEntryForOverflowPage ==
    \A i \in 1..Len(_load_all) : _load_all[i][2] \notin OverflowPages

\* build has just rewritten the index from a data file that has two
\* overflow pages
C11_Witness ==
    /\ Cardinality(OverflowPages) >= 2
    /\ ret = RetRaise("TypeError")
    /\ Len(index) = 1
    /\ index[1][2] = 0

----------------------------------------------------------------------------
(***************************************************************************)
(* The ISAM store of src/p1.py, over the same two files.  Its index file   *)
(* holds a size, the byte offset p0 of the first page and then (k_i, p_i)  *)
(* pairs; IndexFile.getIndex reads it as the two lists pages = [p0, p1..]  *)
(* and keys = [k1..], and the variable index holds these two lists.  The   *)
(* size header is always len(pages) and is not kept apart.                 *)
(* p1.py sets BLOCK_FACTOR = 23; the split of ISAM.add is the same for     *)
(* every block factor, and InitP1 draws small ones so that it happens      *)
(* within MaxCalls calls.  In SpecP1 log is the sequence of calls made.    *)
(***************************************************************************)

\* how many calls of the p1.py store are followed
MaxCalls == 4

\* the ids handed to the p1.py store are 1..MaxKey
MaxKey == 4

\* the block factors SpecP1 starts from are 1..MaxP1BlockFactor
MaxP1BlockFactor == 2

\* Record.SIZE_OF_RECORD = struct.calcsize('i40sif15s')
SIZE_OF_RECORD == 67

\* Page.SIZE_HEADER = struct.calcsize('ii')
SIZE_HEADER == 8

\* Page.SIZE_OF_PAGE
SIZE_OF_PAGE == SIZE_HEADER + BLOCK_FACTOR * SIZE_OF_RECORD

\* file.seek(page_pos); Page.unpack(file.read(Page.SIZE_OF_PAGE))
ReadAt(f, page_pos) == f[(page_pos \div SIZE_OF_PAGE) + 1]

\* file.seek(page_pos); file.write(page.pack())
WriteAt(f, page_pos, page) == [f EXCEPT ![(page_pos \div SIZE_OF_PAGE) + 1] = page]

\* file.seek(0, 2); file.tell()
EndOf(f) == Len(f) * SIZE_OF_PAGE

\* a returned str, and the bool False
RetStr(s) == [kind |-> s, value |-> 0]
RetFalse == [kind |-> "False", value |-> 0]

\* IndexFile.getIndex
getIndex == index

\* IndexFile.addIndex: the contents of the index file after the call
addIndex(page_pos, key) ==
    IF ~indexExists
    THEN [pages |-> <<page_pos>>, keys |-> <<>>]
    ELSE [pages |-> Append(getIndex.pages, page_pos), keys |-> Append(getIndex.keys, key)]

\* the upper_bound loop of IndexFile.updateIndex (left, right 0-based)
RECURSIVE upper_bound(_, _, _, _)
upper_bound(keys, key, left, right) ==
    IF left < right
    THEN LET mid == (left + right) \div 2
         IN IF keys[mid + 1] <= key
            THEN upper_bound(keys, key, mid + 1, right)
            ELSE upper_bound(keys, key, left, mid)
    ELSE left

\* IndexFile.updateIndex: the contents of the index file after the call and
\* the bool it returns
updateIndex(page_pos, key) ==
    IF ~indexExists \/ Len(getIndex.pages) = 0
    THEN [contents |-> index, result |-> FALSE]
    ELSE LET keys == getIndex.keys
             pos == upper_bound(keys, key, 0, Len(keys))
             tail_pages == SubSeq(getIndex.pages, 2, Len(getIndex.pages))
         IN [contents |-> [pages |-> <<getIndex.pages[1]>> \o ListInsert(tail_pages, pos, page_pos),
                           keys |-> ListInsert(keys, pos, key)],
             result |-> TRUE]

\* the loop of IndexFile.search_position (left, right 0-based)
RECURSIVE lower_bound(_, _, _, _)
lower_bound(keys, record_id, left, right) ==
    IF left <= right
    THEN LET mid == (left + right) \div 2
         IN IF keys[mid + 1] < record_id
            THEN lower_bound(keys, record_id, mid + 1, right)
            ELSE lower_bound(keys, record_id, left, mid - 1)
    ELSE left

\* IndexFile.search_position: "START", "END" or an int
search_position(record_id) ==
    LET keys == getIndex.keys
        left == lower_bound(keys, record_id, 0, Len(keys) - 1)
    IN IF Len(keys) = 0 THEN RetStr("START")
       ELSE IF left = Len(keys) THEN RetStr("END")
       ELSE RetInt(left + 1)

\* Page.position returns None for an id the page already holds
NoPosition == -1

\* Page.position (left, right 0-based)
RECURSIVE position(_, _, _, _)
position(records, record_id, left, right) ==
    IF left <= right
    THEN LET mid == (left + right) \div 2
         IN IF records[mid + 1] = record_id THEN NoPosition
            ELSE IF records[mid + 1] < record_id
            THEN position(records, record_id, mid + 1, right)
            ELSE position(records, record_id, left, mid - 1)
    ELSE left

\* ISAM.add
add(record) ==
    /\ UNCHANGED BLOCK_FACTOR
    /\ IF ~dataExists
       THEN /\ dataExists' = TRUE
            /\ pages' = <<Page(<<record>>, NoPage)>>
            /\ index' = addIndex(0, record)
            /\ indexExists' = TRUE
            /\ ret' = RetNone
       ELSE IF ~indexExists
       THEN \* open() in getIndex raises
            /\ ret' = RetRaise("FileNotFoundError")
            /\ UNCHANGED <<dataExists, pages, indexExists, index>>
       ELSE IF search_position(record).kind \in {"START", "END"}
       THEN /\ pages' = Append(pages, Page(<<record>>, NoPage))
            /\ index' = addIndex(EndOf(pages), record)
            /\ ret' = RetStr("Added")
            /\ UNCHANGED <<dataExists, indexExists>>
       ELSE LET page_pos == getIndex.pages[search_position(record).value]
                page == ReadAt(pages, page_pos)
                record_position == position(page.records, record, 0, Len(page.records) - 1)
                records == ListInsert(page.records, record_position, record)
                half == Len(records) \div 2
                r1 == SubSeq(records, 1, half)
                r2 == SubSeq(records, half + 1, Len(records))
            IN IF record_position = NoPosition
               THEN \* range(len(page.records) - 1, None, -1) raises
                    /\ ret' = RetRaise("TypeError")
                    /\ UNCHANGED <<dataExists, pages, indexExists, index>>
               ELSE IF Len(page.records) + 1 > BLOCK_FACTOR
               THEN /\ pages' = Append(WriteAt(pages, page_pos, [page EXCEPT !.records = r1]),
                                       Page(r2, NoPage))
                    /\ index' = updateIndex(EndOf(pages), r2[1]).contents
                    /\ ret' = RetStr("Added new Page at the end")
                    /\ UNCHANGED <<dataExists, indexExists>>
               ELSE /\ pages' = WriteAt(pages, page_pos, [page EXCEPT !.records = records])
                    /\ ret' = RetStr("Record inserted successfully")
                    /\ UNCHANGED <<dataExists, indexExists, index>>

\* ISAM.search of p1.py: pass
P1_search(record_id) ==
    /\ ret' = RetNone
    /\ UNCHANGED <<BLOCK_FACTOR, dataExists, pages, indexExists, index>>

\* ISAM.delete: pass
delete(record_id) ==
    /\ ret' = RetNone
    /\ UNCHANGED <<BLOCK_FACTOR, dataExists, pages, indexExists, index>>

\* ISAM.scanAll of p1.py: the ids it prints, page by page in file order
RECURSIVE P1_ScanFrom(_, _)
P1_ScanFrom(f, i) ==
    IF i > Len(f) THEN <<>> ELSE f[i].records \o P1_ScanFrom(f, i + 1)

P1_scanAll == P1_ScanFrom(pages, 1)

\* a caller adds a record
Add ==
    /\ Len(log) < MaxCalls
    /\ \E k \in 1..MaxKey :
        /\ add(k)
        /\ log' = Append(log, <<"add", k>>)

\* a caller searches an id
Search ==
    /\ Len(log) < MaxCalls
    /\ \E k \in 1..MaxKey :
        /\ P1_search(k)
        /\ log' = Append(log, <<"search", k>>)

\* a caller deletes an id
Delete ==
    /\ Len(log) < MaxCalls
    /\ \E k \in 1..MaxKey :
        /\ delete(k)
        /\ log' = Append(log, <<"delete", k>>)

\* neither data.dat nor index.dat exists before the first call
InitP1 ==
    /\ BLOCK_FACTOR \in 1..MaxP1BlockFactor
    /\ dataExists = FALSE
    /\ pages = <<>>
    /\ indexExists = FALSE
    /\ index = [pages |-> <<>>, keys |-> <<>>]
    /\ ret = RetNone
    /\ log = <<>>

NextP1 == Add \/ Search \/ Delete

SpecP1 == InitP1 /\ [][NextP1]_vars

----------------------------------------------------------------------------

\* the ids the data file of the p1.py store holds
P1StoredIds == Range(P1_scanAll)

(* C12: delete(id) of a stored id removes the record, so that later scans  *)
(* omit it; delete(id) of an id that is not stored returns false and       *)
(* changes neither the data file nor the index.                            *)
C12_DeleteRemoves ==
    [][\A k \in 1..MaxKey :
          log' = Append(log, <<"delete", k>>) =>
              IF k \in P1StoredIds
              THEN k \notin P1StoredIds'
              ELSE ret' = RetFalse /\ UNCHANGED <<pages, index>>]_vars

----------------------------------------------------------------------------
(***************************************************************************)
(* Record.pack and Record.unpack of src/prueba.py.  A str is a sequence of *)
(* characters, a bytes value a sequence of byte values; the packed record  *)
(* is kept field by field as struct lays it out ('i40sif15s').  precio is  *)
(* followed for whole non-negative values; 'f' stores an IEEE binary32.    *)
(* In SpecRecord log holds the record that is packed.                      *)
(***************************************************************************)

\* the longest nombre and fecha that are drawn
MaxText == 2

\* the widths of nombre and fecha in Record.FORMAT
NombreWidth == 40
FechaWidth == 15

\* the characters the text fields are drawn from
Chars == {"a", " "}

\* the values precio is drawn from: binary32 holds 24 significant bits
Precios == {0, 1, 2^24, 2^24 + 1}

\* str.encode() and bytes.decode(errors="ignore") over Chars and the pad byte
encode(s) == [i \in 1..Len(s) |-> IF s[i] = "a" THEN 97 ELSE 32]
decode(b) == [i \in 1..Len(b) |-> IF b[i] = 97 THEN "a" ELSE IF b[i] = 32 THEN " " ELSE "NUL"]

\* bytes.ljust(width, b'\x00')
ljust(b, width) == IF Len(b) >= width THEN b ELSE b \o [i \in 1..(width - Len(b)) |-> 0]

\* str.rstrip('\x00')
RECURSIVE rstrip(_)
rstrip(s) == IF Len(s) > 0 /\ s[Len(s)] = "NUL" THEN rstrip(SubSeq(s, 1, Len(s) - 1)) ELSE s

\* str.strip(): whitespace goes from both ends
RECURSIVE strip(_)
strip(s) ==
    IF Len(s) > 0 /\ s[1] = " " THEN strip(SubSeq(s, 2, Len(s)))
    ELSE IF Len(s) > 0 /\ s[Len(s)] = " " THEN strip(SubSeq(s, 1, Len(s) - 1))
    ELSE s

\* the position of the leading bit of n
RECURSIVE Exponent(_)
Exponent(n) == IF n < 2 THEN 0 ELSE 1 + Exponent(n \div 2)

\* struct's 'f': the nearest binary32, ties to even
Float32(n) ==
    LET e == Exponent(n)
        ulp == 2^(e - 23)
        q == n \div ulp
        rem == n % ulp
    IN IF e <= 23 THEN n
       ELSE IF 2 * rem > ulp \/ (2 * rem = ulp /\ q % 2 = 1) THEN (q + 1) * ulp
       ELSE q * ulp

\* Record.pack
pack(r) ==
    [id |-> r.id,
     nombre |-> ljust(encode(r.nombre), NombreWidth),
     cantidad |-> r.cantidad,
     precio |-> Float32(r.precio),
     fecha |-> ljust(encode(r.fecha), FechaWidth)]

\* Record.unpack
unpack(data) ==
    [id |-> data.id,
     nombre |-> strip(rstrip(decode(data.nombre))),
     cantidad |-> data.cantidad,
     precio |-> data.precio,
     fecha |-> strip(rstrip(decode(data.fecha)))]

\* the texts of at most MaxText characters
Texts == UNION {[1..n -> Chars] : n \in 0..MaxText}

\* the records that are packed
Records == [id : {1, 2}, nombre : Texts, cantidad : {0, 1}, precio : Precios, fecha : Texts]

\* a caller packs the record
PackRecord ==
    /\ ret.kind = "None"
    /\ ret' = [kind |-> "bytes", value |-> pack(log[1])]
    /\ UNCHANGED <<BLOCK_FACTOR, dataExists, pages, indexExists, index, log>>

\* a caller unpacks what pack returned
UnpackRecord ==
    /\ ret.kind = "bytes"
    /\ ret' = [kind |-> "Record", value |-> unpack(ret.value)]
    /\ UNCHANGED <<BLOCK_FACTOR, dataExists, pages, indexExists, index, log>>

InitRecord ==
    /\ BLOCK_FACTOR = DefaultBlockFactor
    /\ dataExists = FALSE
    /\ pages = <<>>
    /\ indexExists = FALSE
    /\ index = <<>>
    /\ ret = RetNone
    /\ log \in {<<r>> : r \in Records}

NextRecord == PackRecord \/ UnpackRecord

SpecRecord == InitRecord /\ [][NextRecord]_vars

----------------------------------------------------------------------------

(* C13: for every record whose nombre fits in 40 bytes and whose fecha fits *)
(* in 15 bytes, Record.unpack(Record.pack(r)) has the same id, nombre,      *)
(* cantidad, precio and fecha as r.                                         *)
C13_RoundTrip ==
    ret.kind = "Record" => ret.value = log[1]

\* the round trip of a record whose texts neither begin nor end with
\* whitespace and whose precio is a binary32 value gives the record back
C13_RoundTripOfTrimmed ==
    (/\ ret.kind = "Record"
     /\ strip(log[1].nombre) = log[1].nombre
     /\ strip(log[1].fecha) = log[1].fecha
     /\ Float32(log[1].precio) = log[1].precio)
        => ret.value = log[1]

----------------------------------------------------------------------------

\* the last page of the chain rooted at page pno
LastOfChain(f, pno) ==
    LET chain == Chain(f, pno, _num_pages(f)) IN chain[Len(chain)]

(* C14: when the primary page p returned by find_page_for_key already has   *)
(* overflow pages, insert applies the sorted insert to the last page of the *)
(* chain rooted at p and not to p itself.  (Stated of the step a call of    *)
(* insert takes: p keeps its records and the last page of its chain is      *)
(* written.)                                                                *)
C14_InsertGoesToLastOfChain ==
    [][\A k \in Keys :
          (/\ log' = Append(log, k)
           /\ _num_pages(pages) > 0
           /\ _read_page(pages, find_page_for_key(k)).next_page # NoPage) =>
              LET p == find_page_for_key(k)
                  last == LastOfChain(pages, p)
              IN  /\ _read_page(pages', p).records = _read_page(pages, p).records
                  /\ _read_page(pages', last) # _read_page(pages, last)]_vars

----------------------------------------------------------------------------

\* the page numbers named by a sequence of them
PagesOf(chain) == {chain[i] : i \in 1..Len(chain)}

(* C15: when an insert overflows page c whose next_page was x, the newly    *)
(* appended page n gets next_page = x and page c is rewritten with          *)
(* next_page = n, where n is the number of pages in the file before the     *)
(* append; every page reachable from c before the split is still reachable  *)
(* from c after it.  (Stated of the step a call of insert takes.)           *)
C15_SplitRelinksChain ==
    [][\A k \in Keys :
          (/\ log' = Append(log, k)
           /\ _num_pages(pages) > 0
           /\ _num_pages(pages') # _num_pages(pages)) =>
              LET c == find_page_for_key(k)
                  x == _read_page(pages, c).next_page
                  n == _num_pages(pages)
              IN  /\ _num_pages(pages') = n + 1
                  /\ _read_page(pages', n).next_page = x
                  /\ _read_page(pages', c).next_page = n
                  /\ \A q \in PageNumbers \ {c} : _read_page(pages', q) = _read_page(pages, q)
                  /\ PagesOf(Chain(pages, c, n)) \subseteq PagesOf(Chain(pages', c, n + 1))]_vars

\* page 0 was split twice: the second split found next_page = 1 in page 0
\* and handed it to the new page 2
C15_Witness ==
    /\ _num_pages(pages) = 3
    /\ Chain(pages, 0, 3) = <<0, 2, 1>>

----------------------------------------------------------------------------

\* what a split of page c by the insert of id k left behind: c keeps the
\* ceil(count / 2) smallest of its count records, the new page n the rest
SplitKeepsSmallest(k) ==
    LET c == find_page_for_key(k)
        n == _num_pages(pages)
        count == Len(_read_page(pages, c).records) + 1
        low == _read_page(pages', c).records
        high == _read_page(pages', n).records
    IN  /\ count = BLOCK_FACTOR + 1
        /\ Len(low) = (count + 1) \div 2
        /\ Len(high) = count - Len(low)
        /\ \A i \in 1..Len(low) : \A j \in 1..Len(high) : low[i] < high[j]
        /\ \A r \in Range(_read_page(pages, c).records) \cup {k} : low[1] <= r

\* the smallest id of the store is the first record of page 0
SmallestIsFirstOfPageZero ==
    \A p \in PageNumbers : \A r \in Range(_read_page(pages, p).records) :
        _read_page(pages, 0).records[1] <= r

(* C16: a split of a page holding count = BLOCK_FACTOR + 1 records keeps    *)
(* the ceil(count / 2) smallest records in the current page and moves the   *)
(* rest to the new page, so every id left in the current page is smaller    *)
(* than every id in the new page and the current page keeps its smallest    *)
(* id; the smallest id of the whole store is always the first record of     *)
(* page 0.  (Stated of the step a call of insert takes.)                    *)
C16_SplitKeepsSmallest ==
    [][\A k \in Keys :
          log' = Append(log, k) =>
              /\ (_num_pages(pages) > 0 /\ _num_pages(pages') # _num_pages(pages))
                    => SplitKeepsSmallest(k)
              /\ SmallestIsFirstOfPageZero']_vars

\* the same of stores whose insert calls never repeated an id
C16_SplitKeepsSmallestOfDistinct ==
    [][\A k \in Keys :
          (log' = Append(log, k) /\ Repeats(log') = 0) =>
              /\ (_num_pages(pages) > 0 /\ _num_pages(pages') # _num_pages(pages))
                    => SplitKeepsSmallest(k)
              /\ SmallestIsFirstOfPageZero']_vars

----------------------------------------------------------------------------

(* C17: in every state reached by insert calls into an empty store,         *)
(* following next_page from page 0 reaches the sentinel -1 without visiting *)
(* a page twice and visits every page of the data file exactly once: no     *)
(* cycle, no orphan page, no next_page past the end of the file; hence      *)
(* search returns for every key.                                            *)
C17_OneChainThroughAllPages ==
    /\ \A p \in PageNumbers : _read_page(pages, p).next_page \in PageNumbers \cup {NoPage}
    /\ _num_pages(pages) > 0 =>
          LET chain == Chain(pages, 0, _num_pages(pages) + 1)
          IN  /\ Len(chain) = _num_pages(pages)
              /\ PagesOf(chain) = PageNumbers
              /\ _read_page(pages, chain[Len(chain)]).next_page = NoPage
    /\ \A k \in Keys : search(k) # NoReturn

\* three pages in one chain; a search walks it to its end to find an id of
\* the last page and to miss an id that was never inserted
C17_Witness ==
    /\ _num_pages(pages) = 3
    /\ LastOfChain(pages, 0) # 0
    /\ \E k \in Range(_read_page(pages, LastOfChain(pages, 0)).records) : search(k) = Found(k)
    /\ \E k \in Keys \ Range(log) : search(k) = None

----------------------------------------------------------------------------

(* C18: if the index is rebuilt by IndexFile.build from a data file made by *)
(* insert calls, then afterwards search(k) still returns the record for     *)
(* every stored id k, and later inserts keep that property.                 *)
C18_SearchFindsStoredAfterBuild ==
    \A p \in PageNumbers : \A i \in 1..Len(_read_page(pages, p).records) :
        search(_read_page(pages, p).records[i]) = Found(_read_page(pages, p).records[i])

\* build rewrote the index when page 0 began with an id other than the first
\* one inserted, a later insert put a smaller id in front of it, and an id
\* of the last page of the chain is found
C18_Witness ==
    /\ _num_pages(pages) >= 2
    /\ Len(index) = 1
    /\ index[1][1] # log[1]
    /\ _read_page(pages, 0).records[1] < index[1][1]
    /\ \E k \in Range(_read_page(pages, LastOfChain(pages, 0)).records) : search(k) = Found(k)

----------------------------------------------------------------------------

\* the records read along the chain from page 0
ChainFromPageZero == ChainRecords(pages, Chain(pages, 0, _num_pages(pages)))

----------------------------------------------------------------------------

----------------------------------------------------------------------------

\* the primary pages: the pages that are no page's next_page
PrimaryPages == PageNumbers \ OverflowPages

\* the records of the chains of the primary pages numbered p and above, one
\* chain after the other by increasing number of its primary page
RECURSIVE ScanByChains(_)
ScanByChains(p) ==
    IF p >= _num_pages(pages) THEN <<>>
    ELSE (IF p \in PrimaryPages
          THEN ChainRecords(pages, Chain(pages, p, _num_pages(pages)))
          ELSE <<>>) \o ScanByChains(p + 1)

\* a sequence read from its end
Reverse(s) == [i \in 1..Len(s) |-> s[Len(s) + 1 - i]]

----------------------------------------------------------------------------

\* no id sits in more than one record slot of the data file of the p1.py
\* store
NoIdStoredTwice ==
    \A i \in 1..Len(P1_scanAll) : \A j \in 1..Len(P1_scanAll) :
        i # j => P1_scanAll[i] # P1_scanAll[j]

(* C22: after any sequence of ISAM.add calls of p1.py no id is stored in    *)
(* more than one record slot of the data file: an add of an id that is      *)
(* already stored writes no record to any page.  (Stated of the step a call *)
(* of add takes.)                                                           *)
C22_AddKeepsIdsUnique ==
    [][\A k \in 1..MaxKey :
          log' = Append(log, <<"add", k>>) =>
              /\ k \in P1StoredIds => pages' = pages
              /\ NoIdStoredTwice']_vars

\* an add of an id that the selected page already holds raises and writes
\* nothing
C22_AddOfIdInSelectedPageRaises ==
    [][\A k \in 1..MaxKey :
          (/\ log' = Append(log, <<"add", k>>)
           /\ dataExists /\ indexExists
           /\ search_position(k).kind = "int"
           /\ k \in Range(ReadAt(pages, getIndex.pages[search_position(k).value]).records)) =>
              ret' = RetRaise("TypeError") /\ pages' = pages /\ index' = index]_vars

====
